---- MODULE Spec2Model ----
(***************************************************************************)
(* Model of my-gpu-exporter: the collector (pkg/collector), the retention  *)
(* manager (pkg/process) and the Prometheus exporter (pkg/exporter).       *)
(*                                                                         *)
(* Units.  Time is in whole seconds.  SM utilization is kept in hundredths *)
(* (the ratio 0.75 is 75).  Energy is kept in units of 1/EnergyScale joule *)
(* so that the proportional shares of applyEnergyEstimation are exact in   *)
(* integer arithmetic (float64 rounding is not modelled).                  *)
(***************************************************************************)
EXTENDS Integers, FiniteSets, Sequences, TLC

(* ------------------------------ bounds -------------------------------- *)
\* The clock stops advancing at MaxTime.
MaxTime == 2
\* Number of calls of Collector.Collect that may be started.
MaxCycles == 3
\* The same, when scrapes run concurrently.
MaxConcCycles == 2
\* The same, with three container processes.
MaxExitCycles == 2

(* ------------------------- environment inputs ------------------------- *)
\* PIDs the driver may list.  PID 42 runs on the host (no container).
PIDs == {42, 100, 200, 300, 400}
GPUs == {0, 1}
\* Goroutines of the HTTP server that may run Exporter.Collect.
Scrapes == {1, 2}
\* DCGM SmUtil values, in percent.
SmValues == {0, 25, 75}
\* GetGPUPowerUsage failed.
PowerError == 0 - 1

\* dcgm.ProcessInfo values with the given field values.
Infos(gpus, endTimes, energy, sm) ==
    [GPU : gpus, EndTime : endTimes, EnergyConsumed : energy, SmUtil : sm]

\* The environment of a behaviour is one of these, by name:
\*   "main"  PID 100 stays on GPU 0 and its DCGM energy counter may regress;
\*           PID 200 moves between the GPUs and reports the degenerate
\*           2071 J; the SM utilizations make total 0, 25, 75 and 100.
\*   "conc"  both PIDs on GPU 0 with fixed SM utilizations.
\*   "exit"  three container PIDs on GPU 0, so that the GPU stays shared
\*           when one of them exits.
\*   "power" two container PIDs on each GPU, so that both GPUs can be
\*           time-sliced in one cycle.
\* GetProcessInfo results per PID (energy in joules, SM utilization in
\* percent, EndTime 0 while the process runs).
EnvInfos(e, pid) ==
    CASE e = "main" /\ pid = 42 -> Infos({0}, {0}, {2071}, {25})
      [] e = "main" /\ pid = 100 -> Infos({0}, {0}, {1500, 2071}, {0, 75})
      [] e = "main" /\ pid = 200 -> Infos({0, 1}, {0}, {2071}, {0, 25})
      [] e = "conc" /\ pid = 100 -> Infos({0}, {0}, {1500, 2071}, {75})
      [] e = "conc" /\ pid = 200 -> Infos({0}, {0}, {2071}, {25})
      [] e = "exit" /\ pid = 100 -> Infos({0}, {0}, {2071}, {75})
      [] e = "exit" /\ pid = 200 -> Infos({0}, {0}, {2071}, {25})
      [] e = "exit" /\ pid = 300 -> Infos({0}, {0}, {1500}, {0, 25})
      [] e = "snapshot" /\ pid = 100 -> Infos({0}, {0}, {1500, 2071}, {75})
      [] e = "snapshot" /\ pid = 200 -> Infos({0}, {0}, {2071}, {25})
      [] e = "lifecycle" /\ pid = 100 -> Infos({0}, {0}, {1500}, {75})
      [] e = "eviction" /\ pid = 100 -> Infos({0}, {0}, {1500}, {75})
      [] e = "eviction" /\ pid = 200 -> Infos({1}, {0}, {2071}, {25})
      [] e = "power" /\ pid = 100 -> Infos({0}, {0}, {2071}, {75})
      [] e = "power" /\ pid = 200 -> Infos({0}, {0}, {2071}, {25})
      [] e = "power" /\ pid = 300 -> Infos({1}, {0}, {1500}, {25})
      [] e = "power" /\ pid = 400 -> Infos({1}, {0}, {1500}, {75})
      [] e = "lifecycle" /\ pid = 200 -> Infos({0}, {0}, {2071}, {25})
      [] OTHER -> {}

\* PIDs the driver lists in the environment.
EnvPIDs(e) ==
    CASE e = "exit" -> {100, 200, 300}
      [] e = "snapshot" -> {100, 200}
      [] e = "eviction" -> {100, 200}
      [] e = "power" -> {100, 200, 300, 400}
      [] OTHER -> {42, 100, 200}

\* Whether the caller of GetMetrics keeps the returned map (the test does;
\* Exporter.Collect drops it when it has written the metrics).
KeepsSnapshot(e) == e = "snapshot"

\* Whether the environment starts with main, before NewCollector, or with the
\* exporter serving.
StartsProcess(e) == e = "lifecycle"

\* Successful GetGPUPowerUsage results, in watts.
EnvPower(e) ==
    CASE e = "main" -> {20, 100}
      [] e = "conc" -> {100}
      [] e = "exit" -> {100}
      [] e = "snapshot" -> {100}
      [] e = "lifecycle" -> {100}
      [] e = "power" -> {100}
      [] OTHER -> {}

(* ------------------------------ helpers ------------------------------- *)
Empty == [x \in {} |-> 0]

Put(f, k, v) == [x \in DOMAIN f \cup {k} |-> IF x = k THEN v ELSE f[x]]

Min(S) == CHOOSE x \in S : \A y \in S : x <= y

RECURSIVE Gcd(_, _)
Gcd(a, b) == IF b = 0 THEN a ELSE Gcd(b, a % b)

RECURSIVE LcmOf(_)
LcmOf(S) ==
    IF S = {} THEN 1
    ELSE LET x == CHOOSE y \in S : TRUE
             r == LcmOf(S \ {x})
         IN (x * r) \div Gcd(x, r)

RECURSIVE SumOver(_, _)
\* Sum of f[x] over x in S.
SumOver(f, S) ==
    IF S = {} THEN 0
    ELSE LET x == CHOOSE y \in S : TRUE
         IN f[x] + SumOver(f, S \ {x})

\* cgroup lookup of a PID: the container ID, "" for a host process.
ContainerIDOf(pid) ==
    CASE pid = 42 -> ""
      [] pid = 100 -> "c1"
      [] pid = 300 -> "c3"
      [] OTHER -> "c9"

\* Pod resolver: knows container c1, does not know (or times out on) c9.
PodNameOf(cid) == IF cid = "c1" THEN "trainer-a" ELSE ""

\* PodNamespace and ContainerName of the pod info, "" without pod info.
PodNamespaceOf(cid) == IF PodNameOf(cid) = "" THEN "" ELSE "ml"

ContainerNameOf(cid) == IF PodNameOf(cid) = "" THEN "" ELSE "main"

\* IsContainerized that lets every process through.
IsContainerized_All(containerID) == TRUE

\* Collect: "Filter: only track Kubernetes pods".
IsContainerized(containerID) == containerID # ""

ContainerPIDs == {p \in PIDs : ContainerIDOf(p) # ""}

\* Every total SM utilization a set of co-resident records can have.
SmTotals ==
    {SumOver(f, ContainerPIDs) : f \in [ContainerPIDs -> SmValues]} \ {0}

\* Energy resolution that makes every share sm/total of a whole number of
\* joules a whole number of units.
EnergyScale ==
    LcmOf({t \div Gcd(s, t) : s \in SmValues \ {0}, t \in SmTotals})

(* --------------------------- configuration ---------------------------- *)
\* config.Config fields that the collector reads.
Config(est, retention, idle) ==
    [EnableEnergyEstimation |-> est,
     MetricRetention        |-> retention,
     GPUIdlePower           |-> idle,
     DCGMUpdateFrequency    |-> 1]

MainConfigs == {Config(TRUE, 1, 30)}

VARIABLES
    cfg,                \* config.Config
    env,                \* name of the environment of the behaviour
    now,                \* wall clock (time.Now)
    budget,             \* number of Collect calls that may still start
    processMetrics,     \* Collector.processMetrics: PID -> ProcessMetrics
    exitedProcesses,    \* RetentionManager.exitedProcesses: PID -> exit time
    lastEstimationTime, \* Collector.lastEstimationTime: GPU -> time
    pc,                 \* position of each scrape goroutine
    queue,              \* Collect: discovered processes not yet handled
    seenPIDs,           \* Collect: seenPIDs of the running call
    fetched,            \* Collect: DCGM metrics fetched by the running call
    gpuReading,         \* applyEnergyEstimation: power and interval used
    warnLog,            \* slog: per GPU the times of the warnings logged
    rmMu,               \* RetentionManager.mu
    rmCall,             \* RetentionManager method each goroutine is in
    snapshot,           \* map returned by GetMetrics: PID -> address
    heap,               \* the ProcessMetrics copies the map points to
    podMapper,          \* kubernetes.PodMapper: cache, uidCache, lastUpdate
    pmCall,             \* PodMapper method each goroutine is in
    life,               \* main: its position, the libraries, the server
    powerErrors,        \* GPUs whose estimation failed, per Collect call
    emitted             \* metrics written by the last Exporter.Collect

vars == <<cfg, env, now, budget, processMetrics, exitedProcesses,
          lastEstimationTime, pc, queue, seenPIDs, fetched, gpuReading,
          warnLog, rmMu, rmCall, snapshot, heap, podMapper, pmCall, life,
          powerErrors, emitted>>

\* The variables the methods of RetentionManager leave alone.
collectorVars == <<cfg, env, budget, processMetrics, lastEstimationTime, pc,
                   queue, seenPIDs, fetched, gpuReading, warnLog, snapshot,
                   heap, life, powerErrors, emitted>>

(* ------------------------------- DCGM --------------------------------- *)
\* dcgm.ProcessInfo values GetProcessInfo may return for a PID.
ProcessInfos(e, pid) == EnvInfos(e, pid)

\* dcgm.Client.GetProcessMetrics for a non-empty result.
GetProcessMetrics(info) ==
    [GPU            |-> info.GPU,
     IsRunning      |-> info.EndTime = 0,
     EnergyConsumed |-> info.EnergyConsumed * EnergyScale,
     SmUtilization  |-> info.SmUtil,
     EndTime        |-> info.EndTime]

(* -------------------------- RetentionManager -------------------------- *)
\* PIDs the callers of the RetentionManager pass.
TrackerPIDs == {100, 200}

\* Methods of RetentionManager.
RmOps == {"MarkExited", "IsExited", "ShouldRetain", "CleanupExpired"}

\* Methods that take rm.mu.Lock(); the others take rm.mu.RLock().
RmWriters == {"MarkExited", "CleanupExpired"}

\* A goroutine that is in no method.  Of a call: op and pid are the method
\* and its argument, before the map when the lock was taken, at the clock
\* reading of the body, todo the entries the range loop has yet to visit,
\* removed the counter of CleanupExpired, deleted the number of entries its
\* delete calls took out of the map, result the boolean returned.
IdleCall ==
    [pc |-> "idle", op |-> "none", pid |-> 0, before |-> Empty, at |-> 0,
     todo |-> Empty, removed |-> 0, deleted |-> 0, result |-> FALSE]

\* CanLock that lets every goroutine in.
CanLock_Always(mu, writing) == TRUE

\* sync.RWMutex: Lock needs no holder at all, RLock no writer.
CanLock(mu, writing) ==
    IF writing THEN mu.writer = 0 /\ mu.readers = {} ELSE mu.writer = 0

\* MarkExited that stores the time of every call.
MarkExited_Overwrite(exited, pid, t) == Put(exited, pid, t)

MarkExited(exited, pid, t) ==
    IF pid \in DOMAIN exited THEN exited ELSE Put(exited, pid, t)

IsExited(exited, pid) == pid \in DOMAIN exited

\* ShouldRetain that retains a PID that is not in the map.
ShouldRetain_Unmarked(exited, pid, t, retention) ==
    IF pid \notin DOMAIN exited THEN TRUE
    ELSE t - exited[pid] < retention

\* ShouldRetain with an entry retained up to and including its last instant.
ShouldRetain_Inclusive(exited, pid, t, retention) ==
    IF pid \notin DOMAIN exited THEN FALSE
    ELSE t - exited[pid] <= retention

ShouldRetain(exited, pid, t, retention) ==
    IF pid \notin DOMAIN exited THEN FALSE
    ELSE t - exited[pid] < retention

\* ExpiredPIDs that keeps an entry whose age equals the retention.
ExpiredPIDs_Strict(exited, t, retention) ==
    {pid \in DOMAIN exited : t - exited[pid] > retention}

\* PIDs CleanupExpired deletes.
ExpiredPIDs(exited, t, retention) ==
    {pid \in DOMAIN exited : t - exited[pid] >= retention}

CleanupExpired(exited, t, retention) ==
    [pid \in DOMAIN exited \ ExpiredPIDs(exited, t, retention) |-> exited[pid]]

GetExitedProcesses(exited) == DOMAIN exited

(* ----------------------------- Collector ------------------------------ *)
\* BuildProcessMetrics that leaves ContainerID unset.
BuildProcessMetrics_NoContainerID(pid, metrics, containerID) ==
    [PID             |-> pid,
     GPU             |-> metrics.GPU,
     IsRunning       |-> metrics.IsRunning,
     EnergyJoules    |-> metrics.EnergyConsumed,
     EnergyEstimated |-> FALSE,
     SmUtilization   |-> metrics.SmUtilization,
     EndTime         |-> metrics.EndTime,
     ContainerID     |-> "",
     PodName         |-> PodNameOf(containerID),
     PodNamespace    |-> PodNamespaceOf(containerID),
     ContainerName   |-> ContainerNameOf(containerID)]

\* The ProcessMetrics built from the DCGM metrics of one process.
BuildProcessMetrics(pid, metrics, containerID) ==
    [PID             |-> pid,
     GPU             |-> metrics.GPU,
     IsRunning       |-> metrics.IsRunning,
     EnergyJoules    |-> metrics.EnergyConsumed,
     EnergyEstimated |-> FALSE,
     SmUtilization   |-> metrics.SmUtilization,
     EndTime         |-> metrics.EndTime,
     ContainerID     |-> containerID,
     PodName         |-> PodNameOf(containerID),
     PodNamespace    |-> PodNamespaceOf(containerID),
     ContainerName   |-> ContainerNameOf(containerID)]

\* StoredMetrics without the check of the existing record.
StoredMetrics_Overwrite(store, pid, pm) == pm

\* The record stored for pid: accumulated energy is preserved when the
\* existing record is estimated.
StoredMetrics(store, pid, pm) ==
    IF pid \in DOMAIN store /\ store[pid].EnergyEstimated
    THEN [pm EXCEPT !.EnergyJoules = store[pid].EnergyJoules,
                    !.EnergyEstimated = TRUE]
    ELSE pm

\* PIDs exportGPUAggregations adds up: the records with IsRunning.
RunningPIDs(metrics) ==
    {pid \in DOMAIN metrics : metrics[pid].IsRunning}

\* GpuProcesses without the check of IsRunning.
GpuProcesses_IncludeExited(store, gpu) ==
    {pid \in DOMAIN store : store[pid].GPU = gpu}

\* Running records of a GPU (gpuProcesses[gpu]).
GpuProcesses(store, gpu) ==
    {pid \in DOMAIN store : store[pid].IsRunning /\ store[pid].GPU = gpu}

\* TotalSMUtil that is never 0, so that the totalSMUtil == 0 return is
\* never taken.
TotalSMUtil_NeverZero(store, procs) ==
    SumOver([pid \in procs |-> store[pid].SmUtilization], procs) + 1

TotalSMUtil(store, procs) ==
    SumOver([pid \in procs |-> store[pid].SmUtilization], procs)

\* ActivePower without the clamp at 0.
ActivePower_NoClamp(gpuPower, idle) == gpuPower - idle

ActivePower(gpuPower, idle) ==
    IF gpuPower - idle < 0 THEN 0 ELSE gpuPower - idle

IntervalSeconds(last, gpu, t, frequency) ==
    IF gpu \in DOMAIN last THEN t - last[gpu] ELSE frequency

\* EstimatedEnergyInterval with the share of the other processes.
EstimatedEnergyInterval_Complement(gpuEnergyJoules, sm, totalSMUtil) ==
    (gpuEnergyJoules * EnergyScale * (totalSMUtil - sm)) \div totalSMUtil

\* gpuEnergyJoules * (sm / totalSMUtil), in energy units.
EstimatedEnergyInterval(gpuEnergyJoules, sm, totalSMUtil) ==
    (gpuEnergyJoules * EnergyScale * sm) \div totalSMUtil

\* GPUs for which detectAndValidateTimeSlicing calls applyEnergyEstimation.
TimeSlicedGPUs(store) ==
    {g \in GPUs : Cardinality(GpuProcesses(store, g)) > 1}

\* EstimatedGPUs without the check of EnableEnergyEstimation.
EstimatedGPUs_IgnoreFlag(store, enabled, power) ==
    {g \in GPUs :
        /\ Cardinality({pid \in DOMAIN store :
                           store[pid].IsRunning /\ store[pid].GPU = g}) > 1
        /\ SumOver([pid \in DOMAIN store |->
                       IF store[pid].IsRunning /\ store[pid].GPU = g
                       THEN store[pid].SmUtilization ELSE 0],
                   DOMAIN store) # 0
        /\ power[g] # PowerError}

\* EstimatedGPUs that goes on after a failed GetGPUPowerUsage.
EstimatedGPUs_IgnoreError(store, enabled, power) ==
    {g \in TimeSlicedGPUs(store) :
        /\ enabled
        /\ TotalSMUtil(store, GpuProcesses(store, g)) # 0}

\* GPUs for which applyEnergyEstimation distributes energy, power being the
\* GetGPUPowerUsage result per GPU (PowerError when it fails).
EstimatedGPUs(store, enabled, power) ==
    {g \in TimeSlicedGPUs(store) :
        /\ enabled
        /\ TotalSMUtil(store, GpuProcesses(store, g)) # 0
        /\ power[g] # PowerError}

\* GPUs for which applyEnergyEstimation returns the error of
\* GetGPUPowerUsage and detectAndValidateTimeSlicing logs "Failed to apply
\* energy estimation".
FailedGPUs(store, enabled, power) ==
    {g \in TimeSlicedGPUs(store) :
        /\ enabled
        /\ TotalSMUtil(store, GpuProcesses(store, g)) # 0
        /\ power[g] = PowerError}

\* GPUs for which detectAndValidateTimeSlicing logs "Time-slicing detected
\* but estimation is disabled".
WarnedGPUs(store, enabled) ==
    {g \in TimeSlicedGPUs(store) : ~enabled}

(* ----------------------------- PodMapper ------------------------------ *)
\* Age in seconds above which GetPodInfo refreshes the cache.
CacheTTL == 30

\* Keys of PodMapper.cache (container IDs) and of PodMapper.uidCache.
CacheKeys == {"c1", "c9"}

PodUIDs == {"u1", "u2"}

\* The zero time.Time of a new PodMapper: older than any age.
NeverUpdated == 0 - (CacheTTL + 1)

\* The PodInfo the kubelet or the API server gives for a key.
PodInfoOf(key) == [PodName |-> "pod-" \o key]

\* A goroutine that is in no method of the PodMapper.  Of a call: key is
\* the argument, stale and miss what held when GetPodInfo was entered,
\* refreshed whether it called refreshCache, newCache the local map of
\* refreshCache, items and todo the pods refreshUIDCache got and has yet to
\* store, before the uidCache when its loop started, found the result.
IdlePodCall ==
    [pc |-> "idle", op |-> "none", key |-> "", stale |-> FALSE,
     miss |-> FALSE, refreshed |-> FALSE, newCache |-> Empty, items |-> {},
     todo |-> {}, before |-> Empty, found |-> FALSE]

(* ------------------------------- main --------------------------------- *)
\* main at its start: no library initialized, no server.  Of the record:
\* main is the position of main, dcgm and nvml the state of the telemetry
\* library and of the driver library, server the state of the HTTP server,
\* deadline the end of the context given to server.Shutdown.
NewProcess ==
    [main |-> "NewClient", dcgm |-> "uninit", nvml |-> "uninit",
     server |-> "none", deadline |-> 0]

\* main waiting for the signal: NewCollector has returned the collector and
\* the server listens.
Serving ==
    [main |-> "waitSignal", dcgm |-> "watching", nvml |-> "init",
     server |-> "listening", deadline |-> 0]

(* ------------------------------- Init --------------------------------- *)
InitWith(configs, environments, calls) ==
    /\ cfg \in configs
    /\ env \in environments
    /\ budget = calls
    /\ now = 0
    /\ processMetrics = Empty
    /\ exitedProcesses = Empty
    /\ lastEstimationTime = Empty
    /\ pc = [t \in Scrapes |-> "idle"]
    /\ queue = [t \in Scrapes |-> {}]
    /\ seenPIDs = [t \in Scrapes |-> {}]
    /\ fetched = [t \in Scrapes |-> Empty]
    /\ gpuReading = [t \in Scrapes |-> Empty]
    /\ warnLog = [g \in GPUs |-> <<>>]
    /\ rmMu = [writer |-> 0, readers |-> {}]
    /\ rmCall = [t \in Scrapes |-> IdleCall]
    /\ snapshot = Empty
    /\ heap = Empty
    /\ podMapper = [cache |-> Empty, uidCache |-> Empty,
                    lastUpdate |-> NeverUpdated]
    /\ pmCall = [t \in Scrapes |-> IdlePodCall]
    /\ life = IF StartsProcess(env) THEN NewProcess ELSE Serving
    /\ powerErrors = [t \in Scrapes |-> {}]
    /\ emitted = Empty

Init == InitWith(MainConfigs, {"main"}, MaxCycles)

(* ------------------------------ actions ------------------------------- *)
\* A goroutine whose next step reads the clock (MarkExited, ShouldRetain,
\* CleanupExpired, applyEnergyEstimation).
ReadsClock(t) ==
    \/ pc[t] \in {"evict", "cleanup", "detect"}
    \/ pc[t] = "collect" /\ queue[t] = {}
    \/ rmCall[t].pc = "body"

\* Time passes.  Only the steps that read the clock see it, so the clock
\* advances right before one of them.
Tick ==
    /\ now < MaxTime
    /\ \E t \in Scrapes : ReadsClock(t)
    /\ now' = now + 1
    /\ UNCHANGED <<cfg, env, powerErrors, life, podMapper, pmCall, rmMu,
                   rmCall, snapshot, heap, warnLog, budget, processMetrics,
                   exitedProcesses, lastEstimationTime, pc, queue, seenPIDs,
                   fetched, gpuReading, emitted>>

\* A goroutine that is in no scrape: it has served none yet or its last one
\* has written its metrics ("idle"), or its last one has returned on the
\* error of Collector.Collect ("failed").
NotScraping(t) == pc[t] \in {"idle", "failed"}

\* Exporter.Collect calls Collector.Collect and discovery fails: the scrape
\* logs the error and returns without writing any metric.
DiscoverFails(t) ==
    /\ NotScraping(t)
    /\ budget > 0
    /\ budget' = budget - 1
    /\ pc' = [pc EXCEPT ![t] = "failed"]
    /\ UNCHANGED <<cfg, env, powerErrors, life, podMapper, pmCall, rmMu,
                   rmCall, snapshot, heap, warnLog, now, processMetrics,
                   exitedProcesses, lastEstimationTime, queue, seenPIDs,
                   fetched, gpuReading, emitted>>

\* Collector.Collect: DiscoverProcesses returns the listed processes.
Discover(t) ==
    /\ NotScraping(t)
    /\ life.nvml = "init"
    /\ budget > 0
    /\ budget' = budget - 1
    /\ \E listed \in SUBSET EnvPIDs(env) :
          queue' = [queue EXCEPT ![t] = listed]
    /\ seenPIDs' = [seenPIDs EXCEPT ![t] = {}]
    /\ pc' = [pc EXCEPT ![t] = "collect"]
    /\ UNCHANGED <<cfg, env, powerErrors, life, podMapper, pmCall, rmMu,
                   rmCall, snapshot, heap, warnLog, now, processMetrics,
                   exitedProcesses, lastEstimationTime, fetched, gpuReading,
                   emitted>>

\* One iteration of the loop over the discovered processes that ends in a
\* continue: no container ID, or no DCGM metrics.
SkipProcess(t) ==
    /\ pc[t] = "collect"
    /\ queue[t] # {}
    /\ LET pid == Min(queue[t]) IN
          /\ queue' = [queue EXCEPT ![t] = @ \ {pid}]
          /\ seenPIDs' = [seenPIDs EXCEPT ![t] = @ \cup {pid}]
    /\ UNCHANGED <<cfg, env, powerErrors, life, podMapper, pmCall, rmMu,
                   rmCall, snapshot, heap, warnLog, now, budget,
                   processMetrics, exitedProcesses, lastEstimationTime, pc,
                   fetched, gpuReading, emitted>>

\* One iteration of the loop that stores the metrics of a process.
StoreProcess(t) ==
    /\ pc[t] = "collect"
    /\ queue[t] # {}
    /\ LET pid == Min(queue[t])
           containerID == ContainerIDOf(pid)
       IN /\ IsContainerized(containerID)
          /\ life.dcgm = "watching"
          /\ \E info \in ProcessInfos(env, pid) :
                LET metrics == GetProcessMetrics(info)
                    pm == BuildProcessMetrics(pid, metrics, containerID)
                IN /\ processMetrics' =
                        Put(processMetrics, pid,
                            StoredMetrics(processMetrics, pid, pm))
                   /\ fetched' = [fetched EXCEPT ![t] = Put(@, pid, metrics)]
          /\ queue' = [queue EXCEPT ![t] = @ \ {pid}]
          /\ seenPIDs' = [seenPIDs EXCEPT ![t] = @ \cup {pid}]
    /\ UNCHANGED <<cfg, env, powerErrors, life, podMapper, pmCall, rmMu,
                   rmCall, snapshot, heap, warnLog, now, budget,
                   exitedProcesses, lastEstimationTime, pc, gpuReading,
                   emitted>>

\* NewlyExited that does not look at the PIDs the call has seen.
NewlyExited_IgnoreSeen(store, seen, exited) ==
    {pid \in DOMAIN store : ~IsExited(exited, pid)}

\* PIDs the exit check marks: stored, not seen by this call, not yet exited.
NewlyExited(store, seen, exited) ==
    {pid \in DOMAIN store : pid \notin seen /\ ~IsExited(exited, pid)}

\* Collect: "Check for exited processes".
MarkExits(t) ==
    /\ pc[t] = "collect"
    /\ queue[t] = {}
    /\ LET gone == NewlyExited(processMetrics, seenPIDs[t], exitedProcesses)
       IN /\ processMetrics' =
               [pid \in DOMAIN processMetrics |->
                   IF pid \in gone
                   THEN [processMetrics[pid] EXCEPT !.IsRunning = FALSE]
                   ELSE processMetrics[pid]]
          /\ exitedProcesses' =
               [pid \in DOMAIN exitedProcesses \cup gone |->
                   IF pid \in DOMAIN exitedProcesses
                   THEN exitedProcesses[pid] ELSE now]
    /\ pc' = [pc EXCEPT ![t] = "evict"]
    /\ UNCHANGED <<cfg, env, powerErrors, life, podMapper, pmCall, rmMu,
                   rmCall, snapshot, heap, warnLog, now, budget,
                   lastEstimationTime, queue, seenPIDs, fetched, gpuReading,
                   emitted>>

\* EvictedPIDs that walks every PID instead of GetExitedProcesses, so that
\* records are discarded that exit marking has not frozen.
EvictedPIDs_Unmarked(exited, t, retention) ==
    {pid \in PIDs : ~ShouldRetain(exited, pid, t, retention)}

\* PIDs whose metrics the eviction loop deletes.
EvictedPIDs(exited, t, retention) ==
    {pid \in GetExitedProcesses(exited) :
        ~ShouldRetain(exited, pid, t, retention)}

\* Collect: "Remove metrics for expired processes".
Evict(t) ==
    /\ pc[t] = "evict"
    /\ LET gone == EvictedPIDs(exitedProcesses, now, cfg.MetricRetention)
       IN processMetrics' =
             [pid \in DOMAIN processMetrics \ gone |-> processMetrics[pid]]
    /\ pc' = [pc EXCEPT ![t] = "cleanup"]
    /\ UNCHANGED <<cfg, env, powerErrors, life, podMapper, pmCall, rmMu,
                   rmCall, snapshot, heap, warnLog, now, budget,
                   exitedProcesses, lastEstimationTime, queue, seenPIDs,
                   fetched, gpuReading, emitted>>

\* Collect: retention.CleanupExpired().
Cleanup(t) ==
    /\ pc[t] = "cleanup"
    /\ exitedProcesses' =
          CleanupExpired(exitedProcesses, now, cfg.MetricRetention)
    /\ pc' = [pc EXCEPT ![t] = "detect"]
    /\ UNCHANGED <<cfg, env, powerErrors, life, podMapper, pmCall, rmMu,
                   rmCall, snapshot, heap, warnLog, now, budget,
                   processMetrics, lastEstimationTime, queue, seenPIDs,
                   fetched, gpuReading, emitted>>

\* The store after applyEnergyEstimation has run for the GPUs in est.
AfterEstimation(store, est, power, last, t, config) ==
    [pid \in DOMAIN store |->
        IF \E g \in est : pid \in GpuProcesses(store, g)
        THEN LET g == store[pid].GPU
                 gpuEnergyJoules ==
                     ActivePower(power[g], config.GPUIdlePower)
                       * IntervalSeconds(last, g, t,
                                         config.DCGMUpdateFrequency)
                 total == TotalSMUtil(store, GpuProcesses(store, g))
             IN [store[pid] EXCEPT
                   !.EnergyJoules =
                       @ + EstimatedEnergyInterval(gpuEnergyJoules,
                               store[pid].SmUtilization, total),
                   !.EnergyEstimated = TRUE]
        ELSE store[pid]]

\* Collect: detectAndValidateTimeSlicing().
Detect(t) ==
    /\ pc[t] = "detect"
    /\ \E power \in [GPUs -> EnvPower(env) \cup {PowerError}] :
          LET est == EstimatedGPUs(processMetrics,
                                   cfg.EnableEnergyEstimation, power)
          IN /\ \A g \in GPUs \ TimeSlicedGPUs(processMetrics) :
                    power[g] = PowerError
             /\ processMetrics' =
                   AfterEstimation(processMetrics, est, power,
                                   lastEstimationTime, now, cfg)
             /\ lastEstimationTime' =
                   [g \in DOMAIN lastEstimationTime \cup est |->
                       IF g \in est THEN now ELSE lastEstimationTime[g]]
             /\ gpuReading' =
                   [gpuReading EXCEPT ![t] =
                       [g \in est |->
                           [power    |-> power[g],
                            interval |-> IntervalSeconds(lastEstimationTime,
                                            g, now, cfg.DCGMUpdateFrequency)]]]
             /\ powerErrors' =
                   [powerErrors EXCEPT ![t] =
                       FailedGPUs(processMetrics,
                                  cfg.EnableEnergyEstimation, power)]
             /\ warnLog' =
                   [g \in GPUs |->
                       IF g \in WarnedGPUs(processMetrics,
                                           cfg.EnableEnergyEstimation)
                       THEN Append(warnLog[g], now) ELSE warnLog[g]]
    /\ pc' = [pc EXCEPT ![t] = "getMetrics"]
    /\ UNCHANGED <<cfg, env, life, podMapper, pmCall, rmMu, rmCall, snapshot,
                   heap, now, budget, exitedProcesses, queue, seenPIDs,
                   fetched, emitted>>

\* Distance between the address of a stored record and of a copy of it.
AddrOffset == 1000

\* CopyAddr that hands out the address of the stored record.
CopyAddr_Alias(pid) == pid

\* GetMetrics: the address of pmCopy, a new object, for the record of pid
\* (the stored record of pid is at address pid).
CopyAddr(pid) == AddrOffset + pid

\* Label values Exporter.Collect gives the series of a record.
SeriesLabels(pm) ==
    [pid |-> pm.PID, gpu |-> pm.GPU, pod |-> pm.PodName,
     namespace |-> pm.PodNamespace, container |-> pm.ContainerName,
     container_id |-> pm.ContainerID]

\* exportGPUAggregations: the gpu_energy_joules_total series of a snapshot,
\* one per GPU that has a running record.
ExportGPUAggregations(metrics) ==
    [g \in {metrics[pid].GPU : pid \in RunningPIDs(metrics)} |->
        SumOver([pid \in GpuProcesses(metrics, g) |->
                    metrics[pid].EnergyJoules],
                GpuProcesses(metrics, g))]

\* The energy series Exporter.Collect writes for a snapshot: per PID the
\* value of energy_joules_total and its energy_estimated label.
Exported(metrics) ==
    [pid \in DOMAIN metrics |->
        [EnergyJoules    |-> metrics[pid].EnergyJoules,
         EnergyEstimated |-> metrics[pid].EnergyEstimated]]

\* Exporter.Collect: GetMetrics and the emission of the snapshot.
GetMetrics(t) ==
    /\ pc[t] = "getMetrics"
    /\ emitted' = Exported(processMetrics)
    /\ pc' = [pc EXCEPT ![t] = "idle"]
    /\ seenPIDs' = [seenPIDs EXCEPT ![t] = {}]
    /\ fetched' = [fetched EXCEPT ![t] = Empty]
    /\ gpuReading' = [gpuReading EXCEPT ![t] = Empty]
    /\ powerErrors' = [powerErrors EXCEPT ![t] = {}]
    /\ snapshot' = IF KeepsSnapshot(env)
                   THEN [pid \in DOMAIN processMetrics |-> CopyAddr(pid)]
                   ELSE Empty
    /\ heap' = IF KeepsSnapshot(env)
               THEN [a \in {CopyAddr(pid) : pid \in DOMAIN processMetrics} |->
                       LET pid == CHOOSE p \in DOMAIN processMetrics :
                                      CopyAddr(p) = a
                       IN processMetrics[pid]]
               ELSE Empty
    /\ UNCHANGED <<cfg, env, life, podMapper, pmCall, rmMu, rmCall, warnLog,
                   now, budget, processMetrics, exitedProcesses,
                   lastEstimationTime, queue>>

Scrape(t) ==
    \/ DiscoverFails(t)
    \/ Discover(t)
    \/ SkipProcess(t)
    \/ StoreProcess(t)
    \/ MarkExits(t)
    \/ Evict(t)
    \/ Cleanup(t)
    \/ Detect(t)
    \/ GetMetrics(t)

\* One scrape at a time.
Next == Tick \/ Scrape(1)

(* ----------------------- PodMapper, step by step ---------------------- *)
\* The variables the methods of PodMapper leave alone.
nonPodVars == <<collectorVars, exitedProcesses, rmMu, rmCall>>

\* Seconds one step of the clock takes while the PodMapper is under test.
PodTick == CacheTTL \div 2 + 1

\* Number of such steps.
MaxPodTicks == 3

PodClock ==
    /\ now < MaxPodTicks * PodTick
    /\ now' = now + PodTick
    /\ UNCHANGED <<nonPodVars, podMapper, pmCall>>

\* A goroutine calls GetPodInfo(containerID).
PmGetPodInfo(t) ==
    /\ pmCall[t].pc = "idle"
    /\ \E cid \in CacheKeys :
          pmCall' = [pmCall EXCEPT ![t] =
                        [IdlePodCall EXCEPT !.pc = "check",
                                            !.op = "GetPodInfo",
                                            !.key = cid]]
    /\ UNCHANGED <<nonPodVars, now, podMapper>>

\* GetPodInfo: "Refresh cache if stale (older than 30 seconds)".
PmCheckStale(t) ==
    /\ pmCall[t].pc = "check"
    /\ LET stale == now - podMapper.lastUpdate > CacheTTL
       IN pmCall' = [pmCall EXCEPT
              ![t].pc = IF stale THEN "kubelet" ELSE "lookup",
              ![t].stale = stale,
              ![t].miss = pmCall[t].key \notin DOMAIN podMapper.cache,
              ![t].refreshed = stale]
    /\ UNCHANGED <<nonPodVars, now, podMapper>>

\* refreshCache: connectToKubelet or listPodResources fails; GetPodInfo
\* returns the error.
PmListFails(t) ==
    /\ pmCall[t].pc = "kubelet"
    /\ pmCall' = [pmCall EXCEPT ![t].pc = "idle"]
    /\ UNCHANGED <<nonPodVars, now, podMapper>>

\* refreshCache: "Build new cache" from the pods the kubelet lists.
PmBuildCache(t) ==
    /\ pmCall[t].pc = "kubelet"
    /\ \E keys \in SUBSET CacheKeys :
          pmCall' = [pmCall EXCEPT
              ![t].pc = "swap",
              ![t].newCache = [k \in keys |-> PodInfoOf(k)]]
    /\ UNCHANGED <<nonPodVars, now, podMapper>>

\* refreshCache: pm.cache = newCache; pm.lastUpdate = time.Now().
PmSwapCache(t) ==
    /\ pmCall[t].pc = "swap"
    /\ podMapper' = [podMapper EXCEPT !.cache = pmCall[t].newCache,
                                      !.lastUpdate = now]
    /\ pmCall' = [pmCall EXCEPT ![t].pc = "lookup"]
    /\ UNCHANGED <<nonPodVars, now>>

\* GetPodInfo: "Lookup in cache by container ID" and return.
PmLookup(t) ==
    /\ pmCall[t].pc = "lookup"
    /\ pmCall' = [pmCall EXCEPT
          ![t].pc = "idle",
          ![t].found = pmCall[t].key \in DOMAIN podMapper.cache]
    /\ UNCHANGED <<nonPodVars, now, podMapper>>

\* A goroutine calls GetPodInfoByUID(podUID).
PmGetPodInfoByUID(t) ==
    /\ pmCall[t].pc = "idle"
    /\ \E uid \in PodUIDs :
          pmCall' = [pmCall EXCEPT ![t] =
                        [IdlePodCall EXCEPT !.pc = "uidLookup",
                                            !.op = "GetPodInfoByUID",
                                            !.key = uid]]
    /\ UNCHANGED <<nonPodVars, now, podMapper>>

\* GetPodInfoByUID: "Check UID cache first"; on a miss queryPodByUID, whose
\* own "Check cache first" reads the same map next.
PmUidLookup(t) ==
    /\ pmCall[t].pc = "uidLookup"
    /\ LET hit == pmCall[t].key \in DOMAIN podMapper.uidCache
       IN pmCall' = [pmCall EXCEPT
              ![t].pc = IF hit THEN "idle" ELSE "api",
              ![t].found = hit]
    /\ UNCHANGED <<nonPodVars, now, podMapper>>

\* refreshUIDCache: the request to the API server fails.
PmQueryFails(t) ==
    /\ pmCall[t].pc = "api"
    /\ pmCall' = [pmCall EXCEPT ![t].pc = "idle"]
    /\ UNCHANGED <<nonPodVars, now, podMapper>>

\* refreshUIDCache: the API server returns the pods.
PmQueryPods(t) ==
    /\ pmCall[t].pc = "api"
    /\ \E pods \in SUBSET PodUIDs :
          pmCall' = [pmCall EXCEPT
              ![t].pc = IF pods = {} THEN "uidLookup2" ELSE "fill",
              ![t].items = pods,
              ![t].todo = pods,
              ![t].before = podMapper.uidCache]
    /\ UNCHANGED <<nonPodVars, now, podMapper>>

\* refreshUIDCache: "Build UID cache", one pod: pm.uidCache[uid] = info.
PmFillUid(t) ==
    /\ pmCall[t].pc = "fill"
    /\ \E uid \in pmCall[t].todo :
          /\ podMapper' = [podMapper EXCEPT
                 !.uidCache = Put(@, uid, PodInfoOf(uid))]
          /\ pmCall' = [pmCall EXCEPT
                 ![t].pc = IF pmCall[t].todo = {uid}
                           THEN "uidLookup2" ELSE "fill",
                 ![t].todo = @ \ {uid}]
    /\ UNCHANGED <<nonPodVars, now>>

\* queryPodByUID: the lookup after the refresh, and the return.
PmUidLookup2(t) ==
    /\ pmCall[t].pc = "uidLookup2"
    /\ pmCall' = [pmCall EXCEPT
          ![t].pc = "idle",
          ![t].found = pmCall[t].key \in DOMAIN podMapper.uidCache]
    /\ UNCHANGED <<nonPodVars, now, podMapper>>

PodMapperStep(t) ==
    \/ PmGetPodInfo(t)
    \/ PmCheckStale(t)
    \/ PmListFails(t)
    \/ PmBuildCache(t)
    \/ PmSwapCache(t)
    \/ PmLookup(t)
    \/ PmGetPodInfoByUID(t)
    \/ PmUidLookup(t)
    \/ PmQueryFails(t)
    \/ PmQueryPods(t)
    \/ PmFillUid(t)
    \/ PmUidLookup2(t)

InitPodMapper == InitWith(MainConfigs, {"podmapper"}, 0)

\* One caller of the PodMapper.
NextPodMapper == PodClock \/ PodMapperStep(1)

SpecPodMapper == InitPodMapper /\ [][NextPodMapper]_vars

\* Two collection cycles call the PodMapper at the same time.
NextPodMapperConc == PodClock \/ \E t \in Scrapes : PodMapperStep(t)

SpecPodMapperConc == InitPodMapper /\ [][NextPodMapperConc]_vars

(* --------------------- a caller that keeps the snapshot --------------- *)
\* The record at an address: a stored record or a copy.
Deref(addr) ==
    IF addr \in DOMAIN processMetrics THEN processMetrics[addr]
    ELSE heap[addr]

\* The value the test writes into a returned record, in energy units.
CallerEnergy == 999 * EnergyScale

\* The caller assigns metrics[pid].EnergyJoules.
CallerWrites ==
    /\ \E pid \in DOMAIN snapshot :
          LET addr == snapshot[pid]
          IN IF addr \in DOMAIN processMetrics
             THEN /\ processMetrics' =
                       [processMetrics EXCEPT
                           ![addr].EnergyJoules = CallerEnergy]
                  /\ heap' = heap
             ELSE /\ heap' = [heap EXCEPT ![addr].EnergyJoules = CallerEnergy]
                  /\ processMetrics' = processMetrics
    /\ UNCHANGED <<cfg, env, powerErrors, life, podMapper, pmCall, now,
                   budget, exitedProcesses, lastEstimationTime, pc, queue,
                   seenPIDs, fetched, gpuReading, warnLog, rmMu, rmCall,
                   snapshot, emitted>>

\* The caller deletes an entry of the returned map.
CallerDeletes ==
    /\ \E pid \in DOMAIN snapshot :
          snapshot' = [p \in DOMAIN snapshot \ {pid} |-> snapshot[p]]
    /\ UNCHANGED <<cfg, env, powerErrors, life, podMapper, pmCall, now,
                   budget, processMetrics, exitedProcesses,
                   lastEstimationTime, pc, queue, seenPIDs, fetched,
                   gpuReading, warnLog, rmMu, rmCall, heap, emitted>>

NextSnapshot == Tick \/ Scrape(1) \/ CallerWrites \/ CallerDeletes

InitSnapshot == InitWith(MainConfigs, {"snapshot"}, MaxCycles)

SpecSnapshot == InitSnapshot /\ [][NextSnapshot]_vars

Spec == Init /\ [][Next]_vars

\* One scrape at a time, --enable-energy-estimation=false.
InitNoEstimation == InitWith({Config(FALSE, 1, 30)}, {"main"}, MaxCycles)

SpecNoEstimation == InitNoEstimation /\ [][Next]_vars

\* Scrapes served by concurrent goroutines.
NextConc == Tick \/ \E t \in Scrapes : Scrape(t)

InitConc == InitWith(MainConfigs, {"conc"}, MaxConcCycles)

SpecConc == InitConc /\ [][NextConc]_vars

(* ------------------- RetentionManager, method by method --------------- *)
\* A goroutine calls a method of the RetentionManager.
RmCall(t) ==
    /\ rmCall[t].pc = "idle"
    /\ \E op \in RmOps :
          \E pid \in IF op = "CleanupExpired" THEN {0} ELSE TrackerPIDs :
              rmCall' = [rmCall EXCEPT ![t] =
                            [IdleCall EXCEPT !.pc = "lock", !.op = op,
                                             !.pid = pid]]
    /\ UNCHANGED <<collectorVars, podMapper, pmCall, now, exitedProcesses,
                   rmMu>>

\* rm.mu.Lock() or rm.mu.RLock() returns.
RmLock(t) ==
    /\ rmCall[t].pc = "lock"
    /\ CanLock(rmMu, rmCall[t].op \in RmWriters)
    /\ rmMu' = IF rmCall[t].op \in RmWriters
               THEN [rmMu EXCEPT !.writer = t]
               ELSE [rmMu EXCEPT !.readers = @ \cup {t}]
    /\ rmCall' = [rmCall EXCEPT ![t].pc = "body",
                                ![t].before = exitedProcesses]
    /\ UNCHANGED <<collectorVars, podMapper, pmCall, now, exitedProcesses>>

\* Body of MarkExited.
RmMarkExited(t) ==
    /\ rmCall[t].pc = "body"
    /\ rmCall[t].op = "MarkExited"
    /\ exitedProcesses' = MarkExited(exitedProcesses, rmCall[t].pid, now)
    /\ rmCall' = [rmCall EXCEPT ![t].pc = "unlock", ![t].at = now]
    /\ UNCHANGED <<collectorVars, podMapper, pmCall, now, rmMu>>

\* Body of IsExited.
RmIsExited(t) ==
    /\ rmCall[t].pc = "body"
    /\ rmCall[t].op = "IsExited"
    /\ rmCall' = [rmCall EXCEPT
                     ![t].pc = "unlock",
                     ![t].at = now,
                     ![t].result = IsExited(exitedProcesses, rmCall[t].pid)]
    /\ UNCHANGED <<collectorVars, podMapper, pmCall, now, exitedProcesses,
                   rmMu>>

\* Body of ShouldRetain.
RmShouldRetain(t) ==
    /\ rmCall[t].pc = "body"
    /\ rmCall[t].op = "ShouldRetain"
    /\ rmCall' = [rmCall EXCEPT
                     ![t].pc = "unlock",
                     ![t].at = now,
                     ![t].result =
                         ShouldRetain(exitedProcesses, rmCall[t].pid, now,
                                      cfg.MetricRetention)]
    /\ UNCHANGED <<collectorVars, podMapper, pmCall, now, exitedProcesses,
                   rmMu>>

\* CleanupExpired: now := time.Now(), removed := 0, and the range over the
\* map starts.  The range yields the entries the map holds at its start that
\* nothing deletes before their turn; nothing else writes the map while the
\* lock is held.
RmCleanupStart(t) ==
    /\ rmCall[t].pc = "body"
    /\ rmCall[t].op = "CleanupExpired"
    /\ rmCall' = [rmCall EXCEPT
                     ![t].pc = IF exitedProcesses = Empty
                               THEN "unlock" ELSE "range",
                     ![t].at = now,
                     ![t].todo = exitedProcesses]
    /\ UNCHANGED <<collectorVars, podMapper, pmCall, now, exitedProcesses,
                   rmMu>>

\* CleanupExpired: one iteration of the range loop.
RmCleanupVisit(t) ==
    /\ rmCall[t].pc = "range"
    /\ \E pid \in DOMAIN rmCall[t].todo :
          LET rest == [p \in DOMAIN rmCall[t].todo \ {pid} |->
                          rmCall[t].todo[p]]
              expired == pid \in ExpiredPIDs(rmCall[t].todo, rmCall[t].at,
                                             cfg.MetricRetention)
              present == pid \in DOMAIN exitedProcesses
          IN /\ exitedProcesses' =
                   IF expired
                   THEN [p \in DOMAIN exitedProcesses \ {pid} |->
                            exitedProcesses[p]]
                   ELSE exitedProcesses
             /\ rmCall' = [rmCall EXCEPT
                   ![t].pc = IF rest = Empty THEN "unlock" ELSE "range",
                   ![t].todo = rest,
                   ![t].removed = IF expired THEN @ + 1 ELSE @,
                   ![t].deleted = IF expired /\ present THEN @ + 1 ELSE @]
    /\ UNCHANGED <<collectorVars, podMapper, pmCall, now, rmMu>>

\* The deferred rm.mu.Unlock() or rm.mu.RUnlock(); the method returns.
RmUnlock(t) ==
    /\ rmCall[t].pc = "unlock"
    /\ rmMu' = IF rmCall[t].op \in RmWriters
               THEN [rmMu EXCEPT !.writer = IF @ = t THEN 0 ELSE @]
               ELSE [rmMu EXCEPT !.readers = @ \ {t}]
    /\ rmCall' = [rmCall EXCEPT ![t].pc = "idle"]
    /\ UNCHANGED <<collectorVars, podMapper, pmCall, now, exitedProcesses>>

RetentionStep(t) ==
    \/ RmCall(t)
    \/ RmLock(t)
    \/ RmMarkExited(t)
    \/ RmIsExited(t)
    \/ RmShouldRetain(t)
    \/ RmCleanupStart(t)
    \/ RmCleanupVisit(t)
    \/ RmUnlock(t)

\* Retention periods of the RetentionManager under test.
RetentionConfigs == {Config(TRUE, r, 30) : r \in {0, 1, 2}}

InitRetention == InitWith(RetentionConfigs, {"tracker"}, 0)

\* One caller of the RetentionManager.
NextRetention == Tick \/ RetentionStep(1)

SpecRetention == InitRetention /\ [][NextRetention]_vars

\* Concurrent callers of the RetentionManager.
NextRetentionConc == Tick \/ \E t \in Scrapes : RetentionStep(t)

SpecRetentionConc == InitRetention /\ [][NextRetentionConc]_vars

\* One scrape at a time, three container processes on one GPU.
ExitConfigs == {Config(TRUE, 2, 30)}

InitExit == InitWith(ExitConfigs, {"exit"}, MaxExitCycles)

SpecExit == InitExit /\ [][Next]_vars

\* One scrape at a time, --metric-retention=0.
InitZeroRetention == InitWith({Config(TRUE, 0, 30)}, {"main"}, MaxCycles)

SpecZeroRetention == InitZeroRetention /\ [][Next]_vars

\* One scrape at a time, two container processes on each of the two GPUs.
MaxPowerCycles == 2

InitPower == InitWith(MainConfigs, {"power"}, MaxPowerCycles)

SpecPower == InitPower /\ [][Next]_vars

(* ------------------------- main, step by step ------------------------- *)
\* The variables main leaves alone.
nonMainVars == <<cfg, env, budget, processMetrics, exitedProcesses,
                 lastEstimationTime, pc, queue, seenPIDs, fetched,
                 gpuReading, warnLog, rmMu, rmCall, snapshot, heap,
                 podMapper, pmCall, powerErrors, emitted>>

\* Seconds server.Shutdown waits for the handlers that are running.
ShutdownWindow == 10

\* The process runs: main has neither returned nor called os.Exit.
Alive == life.main \notin {"exit0", "exit1"}

\* NewCollector: dcgm.NewClient fails at dcgm.Init; main logs and exits 1.
NewClientFails ==
    /\ life.main = "NewClient"
    /\ life' = [life EXCEPT !.main = "exit1"]
    /\ UNCHANGED <<nonMainVars, now>>

\* NewCollector: dcgm.NewClient initializes DCGM.
NewClient ==
    /\ life.main = "NewClient"
    /\ life' = [life EXCEPT !.main = "StartWatching", !.dcgm = "init"]
    /\ UNCHANGED <<nonMainVars, now>>

\* NewCollector: StartWatching fails, NewCollector returns the error and
\* main exits 1.
StartWatchingFails ==
    /\ life.main = "StartWatching"
    /\ life' = [life EXCEPT !.main = "exit1"]
    /\ UNCHANGED <<nonMainVars, now>>

\* NewCollector: StartWatching (WatchPidFields) succeeds.
StartWatching ==
    /\ life.main = "StartWatching"
    /\ life' = [life EXCEPT !.main = "NewDiscovery", !.dcgm = "watching"]
    /\ UNCHANGED <<nonMainVars, now>>

\* NewCollector: process.NewDiscovery fails at nvml.Init, NewCollector
\* returns the error and main exits 1.
NewDiscoveryFails ==
    /\ life.main = "NewDiscovery"
    /\ life' = [life EXCEPT !.main = "exit1"]
    /\ UNCHANGED <<nonMainVars, now>>

\* NewCollector: process.NewDiscovery initializes NVML; the collector is
\* returned and main defers col.Shutdown.
NewDiscovery ==
    /\ life.main = "NewDiscovery"
    /\ life' = [life EXCEPT !.main = "ListenAndServe", !.nvml = "init"]
    /\ UNCHANGED <<nonMainVars, now>>

\* main starts the HTTP server and waits for a signal.
ListenAndServe ==
    /\ life.main = "ListenAndServe"
    /\ life' = [life EXCEPT !.main = "waitSignal", !.server = "listening"]
    /\ UNCHANGED <<nonMainVars, now>>

\* SIGINT or SIGTERM arrives: main calls server.Shutdown with a context of
\* ShutdownWindow seconds; the server stops accepting requests.
Signal ==
    /\ life.main = "waitSignal"
    /\ life' = [life EXCEPT !.main = "serverShutdown",
                            !.server = "draining",
                            !.deadline = now + ShutdownWindow]
    /\ UNCHANGED <<nonMainVars, now>>

\* server.Shutdown returns nil: no handler is running any more.
ServerShutdown ==
    /\ life.main = "serverShutdown"
    /\ \A t \in Scrapes : NotScraping(t)
    /\ life' = [life EXCEPT !.main = "colShutdown", !.server = "closed"]
    /\ UNCHANGED <<nonMainVars, now>>

\* server.Shutdown returns the error of its context: the deadline has come
\* with a handler still running.  main logs it and goes on.
ServerShutdownTimesOut ==
    /\ life.main = "serverShutdown"
    /\ \E t \in Scrapes : ~NotScraping(t)
    /\ now' = IF now < life.deadline THEN life.deadline ELSE now
    /\ life' = [life EXCEPT !.main = "colShutdown", !.server = "closed"]
    /\ UNCHANGED nonMainVars

\* The deferred col.Shutdown, first half: c.dcgmClient.Shutdown().
DcgmShutdown ==
    /\ life.main = "colShutdown"
    /\ life' = [life EXCEPT !.main = "discoveryShutdown",
                            !.dcgm = "shutdown"]
    /\ UNCHANGED <<nonMainVars, now>>

\* col.Shutdown, second half: c.discovery.Shutdown(); main returns.
DiscoveryShutdown ==
    /\ life.main = "discoveryShutdown"
    /\ life' = [life EXCEPT !.main = "exit0", !.nvml = "shutdown"]
    /\ UNCHANGED <<nonMainVars, now>>

Main ==
    \/ NewClientFails
    \/ NewClient
    \/ StartWatchingFails
    \/ StartWatching
    \/ NewDiscoveryFails
    \/ NewDiscovery
    \/ ListenAndServe
    \/ Signal
    \/ ServerShutdown
    \/ ServerShutdownTimesOut
    \/ DcgmShutdown
    \/ DiscoveryShutdown

\* A scrape of the running process: the server takes a request only while
\* it listens; a handler that runs goes on until the process ends.
ServedScrape(t) ==
    /\ Alive
    /\ NotScraping(t) => life.server = "listening"
    /\ Scrape(t)

\* Number of scrapes in the life of the process.
MaxLifeCycles == 2

InitLifecycle == InitWith(MainConfigs, {"lifecycle"}, MaxLifeCycles)

NextLifecycle == Main \/ (Alive /\ Tick) \/ ServedScrape(1)

SpecLifecycle == InitLifecycle /\ [][NextLifecycle]_vars

(* ------------------- collection cycles without end -------------------- *)
\* One second passes, told from the point of view of the retention tracker:
\* the clock keeps its value and every exit time moves one second into the
\* past.  ShouldRetain and CleanupExpired read only the age now - exitTime,
\* and ages from the retention period on are alike to both, so an exit time
\* stops at now - MetricRetention.  (The environment has one process per
\* GPU: no other reading of the clock is stored.)
SecondPasses ==
    /\ \E t \in Scrapes : ReadsClock(t)
    /\ exitedProcesses' =
          [pid \in DOMAIN exitedProcesses |->
              IF exitedProcesses[pid] - 1 < now - cfg.MetricRetention
              THEN now - cfg.MetricRetention
              ELSE exitedProcesses[pid] - 1]
    /\ UNCHANGED <<cfg, env, powerErrors, life, podMapper, pmCall, rmMu,
                   rmCall, snapshot, heap, warnLog, now, budget,
                   processMetrics, lastEstimationTime, pc, queue, seenPIDs,
                   fetched, gpuReading, emitted>>

\* The scraper comes back: one more scrape is to come.
NextScrape ==
    /\ budget = 0
    /\ budget' = 1
    /\ UNCHANGED <<cfg, env, powerErrors, life, podMapper, pmCall, rmMu,
                   rmCall, snapshot, heap, warnLog, now, processMetrics,
                   exitedProcesses, lastEstimationTime, pc, queue, seenPIDs,
                   fetched, gpuReading, emitted>>

EvictionConfigs == {Config(TRUE, r, 30) : r \in {1, 2}}

InitEviction == InitWith(EvictionConfigs, {"eviction"}, 1)

NextEviction == SecondPasses \/ NextScrape \/ Scrape(1)

\* Collection cycles keep being run (a scrape that has started goes on, the
\* scraper comes back, and the driver listing succeeds again and again) and
\* time advances.
SpecEviction ==
    /\ InitEviction
    /\ [][NextEviction]_vars
    /\ WF_vars(NextScrape \/ Scrape(1))
    /\ SF_vars(Discover(1))
    /\ SF_vars(SecondPasses)

(* ------------------------------ claims -------------------------------- *)
\* A goroutine inside the body of Collector.Collect.
InCycle(t) == pc[t] \in {"collect", "evict", "cleanup", "detect"}

\* A goroutine whose Collect call has returned and whose GetMetrics is next.
AfterCycle(t) == pc[t] = "getMetrics"

\* A goroutine whose Collect call has stored a record and has not yet run
\* its exit marking, eviction and attribution to the end.
MidCycle(t) ==
    /\ InCycle(t)
    /\ DOMAIN fetched[t] \cap DOMAIN processMetrics # {}

\* C1: between two consecutive emitted snapshots the cumulative energy of a
\* PID present in both does not decrease.
C1_EnergyMonotonic ==
    [][\A pid \in DOMAIN emitted \cap DOMAIN emitted' :
          emitted'[pid].EnergyJoules >= emitted[pid].EnergyJoules]_vars

\* C2: at most one goroutine is inside the body of Collect at any time.
C2_OneCycleAtATime ==
    Cardinality({t \in Scrapes : InCycle(t)}) <= 1

\* C3: when a scrape takes its snapshot the store holds no record written
\* by a Collect call that is still part-way through its steps.
C3_SnapshotBetweenCycles ==
    \A t \in Scrapes :
        AfterCycle(t) => \A u \in Scrapes \ {t} : ~MidCycle(u)

\* C4: after every collection cycle a PID has a record exactly when the
\* cycle saw it (got its container ID and its telemetry) or the retention
\* tracker holds it with exited_at + retention > now.
C4_RetentionClosure ==
    \A t \in Scrapes :
        AfterCycle(t) =>
            \A pid \in PIDs :
                pid \in DOMAIN processMetrics
                    <=> \/ pid \in DOMAIN fetched[t]
                        \/ ShouldRetain(exitedProcesses, pid, now,
                                        cfg.MetricRetention)

\* The step of goroutine t that runs detectAndValidateTimeSlicing.
DetectStep(t) == pc[t] = "detect" /\ pc'[t] = "getMetrics"

\* Energy the step adds to the record of pid.
Added(pid) ==
    processMetrics'[pid].EnergyJoules - processMetrics[pid].EnergyJoules

\* active_power * interval of the reading r, in energy units.
IntervalEnergy(r) ==
    (IF r.power - cfg.GPUIdlePower > 0 THEN r.power - cfg.GPUIdlePower ELSE 0)
        * r.interval * EnergyScale

\* Cumulative energy of pid in the snapshot emitted before the cycle.
Before(pid) ==
    IF pid \in DOMAIN emitted THEN emitted[pid].EnergyJoules ELSE 0

C6_SumBound ==
    [][\A t \in Scrapes : DetectStep(t) =>
          \A g \in TimeSlicedGPUs(processMetrics) :
              LET procs == GpuProcesses(processMetrics, g)
                  sum == SumOver([pid \in procs |-> Added(pid)], procs)
              IN /\ \A pid \in procs : Added(pid) >= 0
                 /\ g \notin DOMAIN gpuReading'[t] => sum = 0
                 /\ g \in DOMAIN gpuReading'[t] =>
                       /\ sum <= IntervalEnergy(gpuReading'[t][g])
                       /\ (\A pid \in procs :
                              processMetrics[pid].SmUtilization # 0)
                            => sum = IntervalEnergy(gpuReading'[t][g])]_vars

\* C6 witness: a cycle has distributed a positive active_power * interval
\* over two running records with non-zero SM utilization.
C6_Witness ==
    \E t \in Scrapes : \E g \in DOMAIN gpuReading[t] :
        /\ AfterCycle(t)
        /\ IntervalEnergy(gpuReading[t][g]) > 0
        /\ Cardinality(GpuProcesses(processMetrics, g)) > 1
        /\ \A pid \in GpuProcesses(processMetrics, g) :
              processMetrics[pid].SmUtilization # 0

\* C7: of two running records of a time-sliced GPU the one with the higher
\* SM utilization gets at least as much energy in the attribution step.
C7_OrderingPreserved ==
    [][\A t \in Scrapes : DetectStep(t) =>
          \A g \in TimeSlicedGPUs(processMetrics) :
              \A p, q \in GpuProcesses(processMetrics, g) :
                  processMetrics[p].SmUtilization
                      > processMetrics[q].SmUtilization
                    => Added(p) >= Added(q)]_vars

\* C7 witness: a cycle has distributed a positive amount of energy over two
\* running records with different non-zero SM utilizations.
C7_Witness ==
    \E t \in Scrapes : \E g \in DOMAIN gpuReading[t] :
        /\ AfterCycle(t)
        /\ IntervalEnergy(gpuReading[t][g]) > 0
        /\ \E p, q \in GpuProcesses(processMetrics, g) :
              /\ processMetrics[p].SmUtilization
                    > processMetrics[q].SmUtilization
              /\ processMetrics[q].SmUtilization > 0

\* C8: after a cycle that distributes energy on a time-sliced GPU, each of
\* its running records is Estimated and holds its cumulative energy from
\* before the cycle (0 for a new record) plus its share of active_power *
\* interval; the telemetry energy does not contribute.
C8_TelemetryIgnored ==
    \A t \in Scrapes : AfterCycle(t) =>
        \A g \in DOMAIN gpuReading[t] :
            LET procs == GpuProcesses(processMetrics, g)
                total == SumOver([pid \in procs |->
                            processMetrics[pid].SmUtilization], procs)
            IN \A pid \in procs :
                  /\ processMetrics[pid].EnergyEstimated
                  /\ processMetrics[pid].EnergyJoules * total =
                        Before(pid) * total
                          + IntervalEnergy(gpuReading[t][g])
                              * processMetrics[pid].SmUtilization

\* C9: after a cycle, the only running record of a GPU, when its telemetry
\* was fetched in the cycle, holds the telemetry energy of the cycle, or
\* the value stored before the cycle when the telemetry value is lower.
C9_SingleProcessMeasured ==
    \A t \in Scrapes : AfterCycle(t) =>
        \A g \in GPUs : \A pid \in DOMAIN fetched[t] :
            GpuProcesses(processMetrics, g) = {pid} =>
                processMetrics[pid].EnergyJoules =
                    IF fetched[t][pid].EnergyConsumed < Before(pid)
                    THEN Before(pid)
                    ELSE fetched[t][pid].EnergyConsumed

\* C10: with estimation disabled no record is ever Estimated, and after a
\* cycle every running record holds the telemetry energy fetched in the
\* cycle, or its value from before the cycle when none was fetched.
C10_NoRedistribution ==
    /\ ~cfg.EnableEnergyEstimation
    /\ \A pid \in DOMAIN processMetrics :
          ~processMetrics[pid].EnergyEstimated
    /\ \A t \in Scrapes : AfterCycle(t) =>
          \A pid \in DOMAIN processMetrics :
              processMetrics[pid].IsRunning =>
                  processMetrics[pid].EnergyJoules =
                      IF pid \in DOMAIN fetched[t]
                      THEN fetched[t][pid].EnergyConsumed
                      ELSE Before(pid)

\* C10 witness: with estimation disabled a cycle ends with two running
\* records on one GPU, both fetched in the cycle, one with SM utilization.
C10_Witness ==
    \E t \in Scrapes : \E g \in TimeSlicedGPUs(processMetrics) :
        /\ AfterCycle(t)
        /\ ~cfg.EnableEnergyEstimation
        /\ GpuProcesses(processMetrics, g) \subseteq DOMAIN fetched[t]
        /\ \E pid \in GpuProcesses(processMetrics, g) :
              processMetrics[pid].SmUtilization > 0

\* time.Minute, in seconds.
Minute == 60

\* C11: two warnings logged for the same GPU are at least one minute apart.
C11_WarningRateLimit ==
    \A g \in GPUs :
        \A i \in 1..(Len(warnLog[g]) - 1) :
            warnLog[g][i + 1] - warnLog[g][i] >= Minute

C13_ExitedHasEndTime ==
    \A pid \in DOMAIN processMetrics :
        ~processMetrics[pid].IsRunning => processMetrics[pid].EndTime # 0

\* The step of goroutine t that runs the eviction loop.
EvictStep(t) == pc[t] = "evict" /\ pc'[t] = "cleanup"

\* C14: a record leaves the store only in an eviction step and only when
\* its PID is in the retention tracker with the retention expired; the
\* eviction step removes every such record, and never a running one.
C14_EvictionExact ==
    [][\A pid \in DOMAIN processMetrics :
          LET removed == pid \notin DOMAIN processMetrics'
              expired ==
                  /\ IsExited(exitedProcesses, pid)
                  /\ ~ShouldRetain(exitedProcesses, pid, now,
                                   cfg.MetricRetention)
          IN /\ removed => (expired /\ \E t \in Scrapes : EvictStep(t))
             /\ (expired /\ \E t \in Scrapes : EvictStep(t)) => removed
             /\ processMetrics[pid].IsRunning => ~removed]_vars

\* C15: with a retention of 0, after a cycle no PID that had a record
\* before the cycle and that the driver did not list in the cycle has a
\* record, and the retention tracker is empty.
C15_ZeroRetention ==
    cfg.MetricRetention = 0 =>
        \A t \in Scrapes : AfterCycle(t) =>
            /\ \A pid \in DOMAIN emitted \ seenPIDs[t] :
                  pid \notin DOMAIN processMetrics
            /\ exitedProcesses = Empty

\* C15 witness: with a retention of 0 a cycle ends in which a PID with a
\* record was not listed.
C15_Witness ==
    \E t \in Scrapes :
        /\ AfterCycle(t)
        /\ cfg.MetricRetention = 0
        /\ DOMAIN emitted \ seenPIDs[t] # {}

\* The step in which goroutine t runs the body of MarkExited.
MarkExitedStep(t) ==
    /\ rmCall[t].pc = "body"
    /\ rmCall[t].op = "MarkExited"
    /\ rmCall'[t].pc = "unlock"

\* A goroutine that has run the body of the method op and still holds the
\* lock.
Returning(t, op) == rmCall[t].pc = "unlock" /\ rmCall[t].op = op

\* C16: MarkExited of a PID that is in the tracker leaves the tracker as it
\* is (exit time and number of entries); MarkExited of a PID that is not
\* in it adds the PID with the time of that call.
C16_MarkExitedIdempotent ==
    [][\A t \in Scrapes : MarkExitedStep(t) =>
          LET pid == rmCall[t].pid
          IN IF pid \in DOMAIN exitedProcesses
             THEN exitedProcesses' = exitedProcesses
             ELSE /\ DOMAIN exitedProcesses'
                       = DOMAIN exitedProcesses \cup {pid}
                  /\ exitedProcesses'[pid] = now
                  /\ \A p \in DOMAIN exitedProcesses :
                        exitedProcesses'[p] = exitedProcesses[p]]_vars

\* C16 witness: MarkExited has run for a PID that was marked at an earlier
\* time.
C16_Witness ==
    \E t \in Scrapes :
        /\ Returning(t, "MarkExited")
        /\ rmCall[t].pid \in DOMAIN rmCall[t].before
        /\ rmCall[t].before[rmCall[t].pid] < rmCall[t].at

\* C17: ShouldRetain(pid) returns true exactly when pid is in the tracker
\* and exited_at + retention > now; with a retention of 0 it returns false.
C17_ShouldRetain ==
    \A t \in Scrapes : Returning(t, "ShouldRetain") =>
        LET pid == rmCall[t].pid
            exited == rmCall[t].before
        IN /\ rmCall[t].result
                <=> /\ pid \in DOMAIN exited
                    /\ exited[pid] + cfg.MetricRetention > rmCall[t].at
           /\ cfg.MetricRetention = 0 => ~rmCall[t].result

\* C17 witness: ShouldRetain has returned false for a PID that is in the
\* tracker of a RetentionManager with a non-zero retention.
C17_Witness ==
    \E t \in Scrapes :
        /\ Returning(t, "ShouldRetain")
        /\ cfg.MetricRetention > 0
        /\ rmCall[t].pid \in DOMAIN rmCall[t].before
        /\ ~rmCall[t].result

\* C18: CleanupExpired leaves in the tracker exactly the entries with
\* exited_at + retention > now, with their exit times, and its counter is
\* the number of entries it removed.
C18_CleanupExpired ==
    \A t \in Scrapes : Returning(t, "CleanupExpired") =>
        LET exited == rmCall[t].before
            kept == {pid \in DOMAIN exited :
                        exited[pid] + cfg.MetricRetention > rmCall[t].at}
        IN /\ exitedProcesses = [pid \in kept |-> exited[pid]]
           /\ rmCall[t].removed
                = Cardinality(DOMAIN exited) - Cardinality(kept)

\* C18 witness: CleanupExpired has removed one entry and kept another.
C18_Witness ==
    \E t \in Scrapes :
        /\ Returning(t, "CleanupExpired")
        /\ rmCall[t].removed = 1
        /\ exitedProcesses # Empty

\* C19: under concurrent callers every method has, when it returns, the
\* effect and the result it has when run on its own on the tracker as it
\* was when the method took the lock; CleanupExpired counts exactly the
\* entries its own deletes removed; a writer holds the lock alone.
C19_TrackerSerializable ==
    /\ \A t \in Scrapes :
          /\ Returning(t, "MarkExited") =>
                exitedProcesses
                    = MarkExited(rmCall[t].before, rmCall[t].pid, rmCall[t].at)
          /\ Returning(t, "CleanupExpired") =>
                /\ exitedProcesses
                      = CleanupExpired(rmCall[t].before, rmCall[t].at,
                                       cfg.MetricRetention)
                /\ rmCall[t].removed = rmCall[t].deleted
          /\ Returning(t, "IsExited") =>
                /\ exitedProcesses = rmCall[t].before
                /\ rmCall[t].result
                      = IsExited(rmCall[t].before, rmCall[t].pid)
          /\ Returning(t, "ShouldRetain") =>
                /\ exitedProcesses = rmCall[t].before
                /\ rmCall[t].result
                      = ShouldRetain(rmCall[t].before, rmCall[t].pid,
                                     rmCall[t].at, cfg.MetricRetention)
    /\ \A t, u \in Scrapes :
          (t # u /\ rmCall[t].pc \in {"body", "range", "unlock"}
                 /\ rmCall[t].op \in RmWriters)
            => rmCall[u].pc \in {"idle", "lock"}

\* C19 witness: one CleanupExpired has removed an entry and is about to
\* return while another goroutine's CleanupExpired waits for the lock.
C19_Witness ==
    \E t, u \in Scrapes :
        /\ t # u
        /\ Returning(t, "CleanupExpired")
        /\ rmCall[t].removed > 0
        /\ rmCall[u].pc = "lock"
        /\ rmCall[u].op = "CleanupExpired"

\* The step in which GetMetrics returns.
GetMetricsStep == \E t \in Scrapes : pc[t] = "getMetrics" /\ pc'[t] = "idle"

\* A step of the caller that holds the returned map.
CallerStep == UNCHANGED <<pc, queue, budget, now>>

\* The record the returned map holds for pid.
SnapshotValue(pid) == Deref(snapshot[pid])

\* C20: GetMetrics returns a map with one entry per stored PID holding the
\* stored values; a write of the caller to a returned record or to the
\* returned map leaves the store as it is; a step of a later cycle leaves
\* the returned map and its records as they are.
C20_SnapshotIndependent ==
    [][/\ GetMetricsStep =>
            /\ DOMAIN snapshot' = DOMAIN processMetrics
            /\ \A pid \in DOMAIN processMetrics :
                  SnapshotValue(pid)' = processMetrics[pid]
       /\ CallerStep => processMetrics' = processMetrics
       /\ (~CallerStep /\ ~GetMetricsStep) =>
            /\ DOMAIN snapshot' = DOMAIN snapshot
            /\ \A pid \in DOMAIN snapshot :
                  SnapshotValue(pid)' = SnapshotValue(pid)]_vars

\* C20 witness: the caller has written a returned record and a later cycle
\* has run; the store holds another value for that PID.
C20_Witness ==
    \E pid \in DOMAIN snapshot \cap DOMAIN processMetrics :
        /\ SnapshotValue(pid).EnergyJoules = CallerEnergy
        /\ processMetrics[pid].EnergyJoules # CallerEnergy
        /\ pc[1] = "getMetrics"
        /\ pid \in DOMAIN fetched[1]

\* C21: every stored record, and so its series, has a non-empty
\* container_id, and a PID gets a record only in a step that has fetched
\* its telemetry and for which the cgroup lookup gave a container ID.
C21_LabelCompleteness ==
    [][\A pid \in DOMAIN processMetrics' :
          /\ SeriesLabels(processMetrics'[pid]).container_id # ""
          /\ pid \notin DOMAIN processMetrics =>
                /\ ContainerIDOf(pid) # ""
                /\ \E t \in Scrapes :
                      pid \in DOMAIN fetched'[t] \ DOMAIN fetched[t]]_vars

\* C21 witness: a cycle that listed a host process and the container
\* process whose pod is unknown ends with a record.
C21_Witness ==
    \E t \in Scrapes :
        /\ AfterCycle(t)
        /\ {42, 200} \subseteq seenPIDs[t]
        /\ 200 \in DOMAIN processMetrics

\* C22: a PID without container ID has no record and no entry in the
\* retention tracker.
C22_HostProcessDropped ==
    \A pid \in PIDs :
        ContainerIDOf(pid) = "" =>
            /\ pid \notin DOMAIN processMetrics
            /\ ~IsExited(exitedProcesses, pid)

\* C22 witness: a cycle that listed the host process has run its exit
\* marking and has marked another PID exited.
C22_Witness ==
    \E t \in Scrapes :
        /\ pc[t] = "evict"
        /\ 42 \in seenPIDs[t]
        /\ \E pid \in DOMAIN exitedProcesses : exitedProcesses[pid] = now
        /\ emitted # Empty

\* Containerized PIDs the cycle of goroutine t listed and got no telemetry
\* for (GetProcessMetrics failed or returned nil).
TelemetryFailed(t) ==
    {pid \in seenPIDs[t] \ DOMAIN fetched[t] : ContainerIDOf(pid) # ""}

\* C23: after a cycle, a PID whose telemetry fetch failed in the cycle has
\* no record.
C23_AbsentOnTelemetryFailure ==
    \A t \in Scrapes : AfterCycle(t) =>
        \A pid \in TelemetryFailed(t) : pid \notin DOMAIN processMetrics

\* PIDs whose telemetry the cycle of goroutine t fetched and whose pod the
\* pod resolver did not return.
WithoutPodInfo(t) ==
    {pid \in DOMAIN fetched[t] : PodNameOf(ContainerIDOf(pid)) = ""}

\* C24: after a cycle, a PID whose telemetry the cycle fetched and whose
\* pod the resolver did not return has a record with its container_id,
\* empty pod, namespace and container labels, the SM utilization and GPU
\* of the telemetry and is_running as reported.
C24_RecordWithoutPodInfo ==
    \A t \in Scrapes : AfterCycle(t) =>
        \A pid \in WithoutPodInfo(t) :
            /\ pid \in DOMAIN processMetrics
            /\ LET labels == SeriesLabels(processMetrics[pid])
               IN /\ labels.container_id = ContainerIDOf(pid)
                  /\ labels.pod = ""
                  /\ labels.namespace = ""
                  /\ labels.container = ""
            /\ processMetrics[pid].GPU = fetched[t][pid].GPU
            /\ processMetrics[pid].SmUtilization
                  = fetched[t][pid].SmUtilization
            /\ processMetrics[pid].IsRunning = fetched[t][pid].IsRunning

\* PIDs whose series the last finished scrape of goroutine t wrote: none
\* when Collector.Collect returned an error, the snapshot otherwise.
Written(t) == IF pc[t] = "failed" THEN {} ELSE DOMAIN emitted

\* C25: when a scrape has finished, also one whose collection failed, it
\* has written the series of every record in the store.
C25_ScrapeEmitsStore ==
    NotScraping(1) => Written(1) = DOMAIN processMetrics

\* C26: in the scrape that writes the store of a finished cycle, every GPU
\* with a per-process series has a gpu_energy_joules_total series whose
\* value is the sum of the energy_joules_total values of those series.
C26_GpuTotalIsSum ==
    \A t \in Scrapes : AfterCycle(t) =>
        \A g \in GPUs :
            LET series == {pid \in DOMAIN processMetrics :
                              SeriesLabels(processMetrics[pid]).gpu = g}
                totals == ExportGPUAggregations(processMetrics)
            IN series # {} =>
                  /\ g \in DOMAIN totals
                  /\ totals[g] =
                        SumOver([pid \in series |->
                                   Exported(processMetrics)[pid].EnergyJoules],
                                series)

\* C27: a GetPodInfo call that has returned its lookup has refreshed the
\* cache exactly when, at its start, the cache was older than 30 s or the
\* requested container ID was not in it.
C27_RefreshOnStaleOrMiss ==
    \A t \in Scrapes :
        (pmCall[t].op = "GetPodInfo" /\ pmCall[t].pc \in {"lookup", "idle"})
            => (pmCall[t].refreshed <=> (pmCall[t].stale \/ pmCall[t].miss))

\* The goroutines whose next step reads pm.cache, and pm.uidCache.
CacheReaders == {t \in Scrapes : pmCall[t].pc = "lookup"}

UidReaders == {t \in Scrapes : pmCall[t].pc \in {"uidLookup", "uidLookup2"}}

\* C28: while a goroutine is about to read a cache of the PodMapper, every
\* change of that cache puts a complete refresh result in its place: the
\* by-container-id cache becomes the newCache of a refresh, the by-pod-uid
\* cache holds all the pods its refresh got; no reader meets a map that is
\* filled only in part.
C28_RefreshAtomic ==
    [][/\ (podMapper'.cache # podMapper.cache /\ CacheReaders # {})
            => \E u \in Scrapes :
                   /\ pmCall[u].pc = "swap"
                   /\ podMapper'.cache = pmCall[u].newCache
       /\ (podMapper'.uidCache # podMapper.uidCache /\ UidReaders # {})
            => \E u \in Scrapes :
                   /\ pmCall[u].pc = "fill"
                   /\ pmCall[u].items \subseteq DOMAIN podMapper'.uidCache
      ]_vars

\* C29: when a failed start is reported (main has exited with status 1), the
\* stages that had been initialized are torn down again: neither the
\* telemetry library nor the driver library is left initialized.
C29_FailedStartupTornDown ==
    life.main = "exit1"
        => /\ life.dcgm \in {"uninit", "shutdown"}
           /\ life.nvml \in {"uninit", "shutdown"}

\* C30: the telemetry library is shut down only after server.Shutdown has
\* returned, the driver library only after the telemetry library, and once
\* either is shut down no goroutine is inside a collection cycle.
C30_GracefulShutdown ==
    /\ life.dcgm = "shutdown" => life.server = "closed"
    /\ life.nvml = "shutdown" => life.dcgm = "shutdown"
    /\ (life.dcgm = "shutdown" \/ life.nvml = "shutdown")
          => \A t \in Scrapes : ~InCycle(t)

\* The driver lists pid to the cycle that is running.
Listed(pid) == \E t \in Scrapes : pid \in queue[t] \cup seenPIDs[t]

\* C31: with cycles that keep being run and time that advances, a PID that
\* from some cycle on is never listed again is in the end neither in the
\* store nor in the retention tracker, for good.
C31_EventuallyEvicted ==
    \A pid \in EnvPIDs("eviction") :
        <>[](~Listed(pid))
            => <>[](/\ pid \notin DOMAIN processMetrics
                    /\ pid \notin DOMAIN exitedProcesses)

\* The step of goroutine t that runs the exit check.
ExitMarkingStep(t) == pc[t] = "collect" /\ pc'[t] = "evict"

\* The positions a goroutine passes, each with the one that follows it.
CycleOrder ==
    {<<"idle", "collect">>, <<"failed", "collect">>, <<"idle", "failed">>,
     <<"collect", "evict">>, <<"evict", "cleanup">>, <<"cleanup", "detect">>,
     <<"detect", "getMetrics">>, <<"getMetrics", "idle">>}

\* C32: a cycle runs exit marking, then eviction, then attribution.  A PID
\* enters the retention tracker only in the exit marking step, with its
\* record set to is_running=false; a record is discarded only in the
\* eviction step and only when its PID has a retention entry; attribution
\* changes the energy only of records that are in the store and running
\* when exit marking and eviction are done.
C32_StepOrder ==
    [][\A t \in Scrapes :
          /\ pc'[t] # pc[t] => <<pc[t], pc'[t]>> \in CycleOrder
          /\ \A pid \in DOMAIN exitedProcesses' \ DOMAIN exitedProcesses :
                /\ \E u \in Scrapes : ExitMarkingStep(u)
                /\ pid \in DOMAIN processMetrics'
                /\ ~processMetrics'[pid].IsRunning
          /\ \A pid \in DOMAIN processMetrics \ DOMAIN processMetrics' :
                /\ \E u \in Scrapes : EvictStep(u)
                /\ pid \in DOMAIN exitedProcesses
          /\ DetectStep(t) =>
                /\ DOMAIN processMetrics' = DOMAIN processMetrics
                /\ \A pid \in DOMAIN processMetrics :
                      processMetrics'[pid] # processMetrics[pid]
                          => processMetrics[pid].IsRunning]_vars

\* A cycle at its end that has marked and discarded a PID the last scrape
\* still showed, and has then attributed energy on a shared GPU.
C32_Witness ==
    /\ pc[1] = "getMetrics"
    /\ DOMAIN emitted \ DOMAIN processMetrics # {}
    /\ gpuReading[1] # Empty
    /\ \E pid \in DOMAIN processMetrics : processMetrics[pid].EnergyEstimated

\* A GPU for which the cycle of goroutine t asked for the power and did not
\* get it: time-sliced, with SM utilization, and no reading taken.
PowerFailed(t, g) ==
    /\ g \in TimeSlicedGPUs(processMetrics)
    /\ TotalSMUtil(processMetrics, GpuProcesses(processMetrics, g)) # 0
    /\ g \notin DOMAIN gpuReading[t]

\* C33: at the end of a cycle last_estimation_time[gpu] is the time of the
\* cycle for every GPU that has running records (a GPU whose power reading
\* failed aside), so that the next interval of the GPU starts at this cycle.
C33_LastEstimationTimeEveryCycle ==
    \A t \in Scrapes : AfterCycle(t) =>
        \A g \in GPUs :
            (GpuProcesses(processMetrics, g) # {} /\ ~PowerFailed(t, g))
                => /\ g \in DOMAIN lastEstimationTime
                   /\ lastEstimationTime[g] = now

\* A GPU with more than one running record, all with SM utilization 0.
IdleSharedGPU(g) ==
    /\ Cardinality(GpuProcesses(processMetrics, g)) > 1
    /\ \A pid \in GpuProcesses(processMetrics, g) :
          processMetrics[pid].SmUtilization = 0

\* C34: the attribution step of a cycle in which the running records of a
\* shared GPU all have SM utilization 0 leaves every record of that GPU as
\* it is: cumulative energy and energy source do not change.
C34_ZeroSMSkipped ==
    [][\A t \in Scrapes : DetectStep(t) =>
          \A g \in GPUs : IdleSharedGPU(g) =>
              \A pid \in DOMAIN processMetrics :
                  processMetrics[pid].GPU = g
                      => /\ pid \in DOMAIN processMetrics'
                         /\ processMetrics'[pid] = processMetrics[pid]]_vars

\* C34 witness: a cycle has run its attribution step over a shared GPU
\* whose running records, fetched in the cycle, all have SM utilization 0.
C34_Witness ==
    \E t \in Scrapes : \E g \in GPUs :
        /\ AfterCycle(t)
        /\ IdleSharedGPU(g)
        /\ GpuProcesses(processMetrics, g) \subseteq DOMAIN fetched[t]
        /\ cfg.EnableEnergyEstimation

\* The step in which goroutine t upserts the record of pid.
UpsertStep(t, pid) ==
    /\ pc[t] = "collect"
    /\ pid \in DOMAIN fetched'[t] \ DOMAIN fetched[t]

\* C35: an upsert over an Estimated record keeps its cumulative energy and
\* the Estimated flag, however many records its GPU has; an upsert over a
\* record that is not Estimated stores the telemetry energy when that is at
\* least the stored value and keeps the stored value otherwise.
C35_UpsertKeepsEnergy ==
    [][\A t \in Scrapes : \A pid \in DOMAIN processMetrics :
          UpsertStep(t, pid) =>
              LET old == processMetrics[pid]
                  new == processMetrics'[pid]
                  telemetry == fetched'[t][pid].EnergyConsumed
              IN IF old.EnergyEstimated
                 THEN /\ new.EnergyJoules = old.EnergyJoules
                      /\ new.EnergyEstimated
                 ELSE /\ ~new.EnergyEstimated
                      /\ new.EnergyJoules =
                            IF telemetry >= old.EnergyJoules
                            THEN telemetry ELSE old.EnergyJoules]_vars

\* C36: when the power reading of a time-sliced GPU fails in the attribution
\* step, no record of that GPU changes its cumulative energy or its energy
\* source, last_estimation_time of the GPU keeps its value (or stays
\* unset), the cycle goes on to its end, and a GPU whose reading was taken
\* in the same step has its energy distributed and its time set.
C36_PowerUnavailable ==
    [][\A t \in Scrapes : DetectStep(t) =>
          /\ \A g \in powerErrors'[t] :
                /\ \A pid \in DOMAIN processMetrics :
                      processMetrics[pid].GPU = g
                          => /\ pid \in DOMAIN processMetrics'
                             /\ processMetrics'[pid] = processMetrics[pid]
                /\ g \in DOMAIN lastEstimationTime'
                      <=> g \in DOMAIN lastEstimationTime
                /\ g \in DOMAIN lastEstimationTime
                      => lastEstimationTime'[g] = lastEstimationTime[g]
                /\ g \notin DOMAIN gpuReading'[t]
          /\ \A h \in DOMAIN gpuReading'[t] :
                /\ lastEstimationTime'[h] = now
                /\ \A pid \in GpuProcesses(processMetrics, h) :
                      processMetrics'[pid].EnergyEstimated
          /\ pc'[t] = "getMetrics"]_vars

\* C36 witness: a cycle is at its end in which the power reading of one
\* time-sliced GPU failed and the other GPU, time-sliced as well, had a
\* positive amount of energy distributed.
C36_Witness ==
    \E t \in Scrapes : \E g \in powerErrors[t] :
        /\ AfterCycle(t)
        /\ g \in TimeSlicedGPUs(processMetrics)
        /\ \E h \in DOMAIN gpuReading[t] :
              /\ h # g
              /\ IntervalEnergy(gpuReading[t][h]) > 0
              /\ \A pid \in GpuProcesses(processMetrics, h) :
                    processMetrics[pid].EnergyEstimated

\* C37: after a cycle every PID of the retention tracker has a record that
\* is not running, and every record that is not running has its PID in the
\* retention tracker.
C37_StoreAndTrackerAgree ==
    \A t \in Scrapes : AfterCycle(t) =>
        /\ \A pid \in DOMAIN exitedProcesses :
              /\ pid \in DOMAIN processMetrics
              /\ ~processMetrics[pid].IsRunning
        /\ \A pid \in DOMAIN processMetrics :
              ~processMetrics[pid].IsRunning
                  => pid \in DOMAIN exitedProcesses

\* C38: a record that the running cycle has upserted for a PID of the
\* retention tracker is not discarded by the eviction step of that cycle,
\* and the upsert over such a record, when it is Estimated, keeps its
\* cumulative energy and the Estimated flag.
C38_RelistedNotEvicted ==
    [][\A t \in Scrapes : \A pid \in DOMAIN exitedProcesses :
          /\ (EvictStep(t) /\ pid \in DOMAIN fetched[t]
                 /\ pid \in DOMAIN processMetrics)
                => pid \in DOMAIN processMetrics'
          /\ (UpsertStep(t, pid) /\ pid \in DOMAIN processMetrics
                 /\ processMetrics[pid].EnergyEstimated)
                => /\ processMetrics'[pid].EnergyEstimated
                   /\ processMetrics'[pid].EnergyJoules =
                         processMetrics[pid].EnergyJoules]_vars

\* C39: the exit marking step of a Collect call marks no PID that the driver
\* listed to that call: it neither adds the PID to the retention tracker
\* nor sets its record to is_running=false, whatever another call that runs
\* at the same time was given.  A PID that is in every listing is then
\* marked by no call.
C39_ListedNeverMarked ==
    [][\A t \in Scrapes : ExitMarkingStep(t) =>
          \A pid \in seenPIDs[t] :
              /\ pid \in DOMAIN exitedProcesses'
                    => pid \in DOMAIN exitedProcesses
              /\ pid \in DOMAIN processMetrics
                    => /\ pid \in DOMAIN processMetrics'
                       /\ processMetrics'[pid].IsRunning
                             = processMetrics[pid].IsRunning]_vars

\* C39 witness: a call has just marked PID 200, which it was not given,
\* while another call that was given PIDs 100 and 200 is inside its cycle;
\* PID 100, given to both, is running and not in the tracker.
C39_Witness ==
    \E t, u \in Scrapes :
        /\ t # u
        /\ pc[t] = "evict"
        /\ InCycle(u)
        /\ 100 \in seenPIDs[t]
        /\ 200 \notin seenPIDs[t]
        /\ {100, 200} \subseteq queue[u] \cup seenPIDs[u]
        /\ 200 \in DOMAIN exitedProcesses
        /\ exitedProcesses[200] = now
        /\ 100 \in DOMAIN processMetrics
        /\ processMetrics[100].IsRunning
        /\ 100 \notin DOMAIN exitedProcesses
====
